---- MODULE Spec2Model ----
(***************************************************************************)
(* A model of data_diff/databases/sqlite.py: the SQLite Dialect (the SQL   *)
(* fragments it emits, evaluated with the semantics SQLite gives them) and *)
(* the SQLite connection manager (create_connection, close).               *)
(***************************************************************************)
EXTENDS Integers, Sequences, FiniteSets, TLC

VARIABLES
    call,       \* the Dialect call under evaluation: its operation and arguments
    ret,        \* the values the call's fragment has evaluated to, oldest first
    args,       \* self._args: whether the database they name can be opened
    failed,     \* per worker thread: whether its create_connection call has raised
    conns,      \* every sqlite3 connection object: its state and registered functions
    nextId,     \* the identity sqlite3.connect gives the next connection object
    held,       \* per worker thread: the connection it holds (thread-local), 0 for none
    pc,         \* per worker thread: its position in create_connection / a query
    con,        \* per worker thread: create_connection's local variable con
    cursor,     \* per connection: the rows of the statement last executed on it
    rows,       \* per worker thread: the rows its queries have fetched
    pool,       \* the worker pool: "running" or "shutdown"
    mpc,        \* the main thread's position in close()
    mcon,       \* close()'s local variable con
    closes,     \* how many close() calls have returned normally
    raised,     \* how many close() calls have raised
    lastOp      \* the last manager operation that ended, and how it was reported

cvars == <<args, failed, conns, nextId, held, pc, con, cursor, rows, pool, mpc, mcon, closes, raised, lastOp>>
vars == <<call, ret, args, failed, conns, nextId, held, pc, con, cursor, rows, pool, mpc, mcon, closes, raised, lastOp>>

(***************************************************************************)
(* Bounds of the model.                                                    *)
(***************************************************************************)
MaxInt == 9             \* SQL integer operands are 1..MaxInt
MaxCalls == 2           \* how often one classification is repeated

(***************************************************************************)
(* SQL values.  NULL, integers and text (a sequence of characters).        *)
(***************************************************************************)
SqlNull == [t |-> "null", v |-> <<>>]
SqlInt(n) == [t |-> "int", v |-> <<n>>]
SqlText(s) == [t |-> "text", v |-> s]
IsNull(x) == x.t = "null"
IsText(x) == x.t = "text"
SameValue(x, y) == x.t = y.t /\ x.v = y.v

Min(a, b) == IF a < b THEN a ELSE b

(***************************************************************************)
(* SQLite's operators, as the fragments use them.                          *)
(***************************************************************************)
\* a IS NOT b: never NULL; 0 when both are NULL or both are the same value.
SqliteIsNot(a, b) == IF SameValue(a, b) THEN SqlInt(0) ELSE SqlInt(1)

\* a <> b under three-valued logic: NULL when either operand is NULL.
SqliteNotEqual(a, b) ==
    IF IsNull(a) \/ IsNull(b) THEN SqlNull
    ELSE IF SameValue(a, b) THEN SqlInt(0) ELSE SqlInt(1)

\* substr(x, 1, n)
SqliteSubstr(x, n) ==
    IF IsNull(x) THEN SqlNull ELSE SqlText(SubSeq(x.v, 1, Min(n, Len(x.v))))

(***************************************************************************)
(* Dialect.is_distinct_from                                                *)
(***************************************************************************)
is_distinct_from_ne(a, b) == SqliteNotEqual(a, b)

\* f"{a} is not {b}"
is_distinct_from(a, b) == SqliteIsNot(a, b)

Operands == {SqlNull} \cup {SqlInt(n) : n \in 1..MaxInt}

DistinctCalls == [op : {"is_distinct_from"}, a : Operands, b : Operands]

Call_is_distinct_from ==
    /\ call.op = "is_distinct_from"
    /\ ret = <<>>
    /\ ret' = <<is_distinct_from(call.a, call.b)>>
    /\ UNCHANGED call
    /\ UNCHANGED cvars

(***************************************************************************)
(* Dialect.TYPE_CLASSES and the classification of a native type name       *)
(***************************************************************************)
ColumnTypes == {"Integer", "Float", "Decimal", "Text", "Temporal", "Unknown"}

IntegerNames == {"INT", "INTEGER", "TINYINT", "SMALLINT", "MEDIUMINT", "BIGINT",
                 "UNSIGNED BIG INT", "INT1", "INT2", "INT3", "INT4", "INT6", "INT8",
                 "BOOLEAN"}
TextNames == {"CHARACTER", "VARCHAR", "VARYING CHARACTER", "NCHAR", "NATIVE CHARACTER",
              "NVARCHAR", "TEXT", "CLOB"}
FloatNames == {"REAL", "DOUBLE", "DOUBLE PRECISION", "FLOAT", "NUMERIC"}
DecimalNames == {"DECIMAL"}
UnsupportedNames == {"DATE", "DATETIME", "NULL", "BLOB"}
TableNames == IntegerNames \cup TextNames \cup FloatNames \cup DecimalNames \cup UnsupportedNames

TYPE_CLASSES_boolean ==
    [n \in TableNames |->
        IF n = "BOOLEAN" THEN "Boolean"
        ELSE IF n \in IntegerNames THEN "Integer"
        ELSE IF n \in TextNames THEN "Text"
        ELSE IF n \in FloatNames THEN "Float"
        ELSE IF n \in DecimalNames THEN "Decimal"
        ELSE "Unknown"]

TYPE_CLASSES ==
    [n \in TableNames |->
        IF n \in IntegerNames THEN "Integer"
        ELSE IF n \in TextNames THEN "Text"
        ELSE IF n \in FloatNames THEN "Float"
        ELSE IF n \in DecimalNames THEN "Decimal"
        ELSE "Unknown"]

\* Names the table does not hold: other casing, other spacing, other backends' types.
OtherNames == {"int", "Integer", "integer", "text", " INT", "INT ", "DOUBLE  PRECISION",
               "VARCHAR(10)", "TIMESTAMP", "JSON", "INT5", "", "UNKNOWN"}

classify(name) ==
    IF name \in DOMAIN TYPE_CLASSES THEN TYPE_CLASSES[name] ELSE "Unknown"

ClassifyCalls == [op : {"classify"}, name : TableNames \cup OtherNames]

Call_classify ==
    /\ call.op = "classify"
    /\ Len(ret) < MaxCalls
    /\ ret' = Append(ret, classify(call.name))
    /\ UNCHANGED call
    /\ UNCHANGED cvars

(***************************************************************************)
(* Text helpers: decimal digits as characters.                             *)
(***************************************************************************)
DigitChars == <<"0", "1", "2", "3", "4", "5", "6", "7", "8", "9">>
Digit(d) == DigitChars[d + 1]
IsDigit(c) == \E d \in 0..9 : DigitChars[d + 1] = c
DigitVal(c) == CHOOSE d \in 0..9 : DigitChars[d + 1] = c

RECURSIVE Pow10(_)
Pow10(k) == IF k = 0 THEN 1 ELSE 10 * Pow10(k - 1)

\* n in decimal, w characters wide, zero-padded on the left.
RECURSIVE Pad(_, _)
Pad(n, w) == IF w = 0 THEN <<>> ELSE Append(Pad(n \div 10, w - 1), Digit(n % 10))

\* The number the digits s[i..j] spell.
RECURSIVE Num(_, _, _)
Num(s, i, j) == IF j < i THEN 0 ELSE 10 * Num(s, i, j - 1) + DigitVal(s[j])

AllDigits(s, i, j) == \A k \in i..j : IsDigit(s[k])

(***************************************************************************)
(* SQLite's strftime(format, timestring).                                  *)
(***************************************************************************)
\* 'YYYY-MM-DD HH:MM:SS.ffffff'
TimeText(tm) ==
    Pad(tm.Y, 4) \o <<"-">> \o Pad(tm.M, 2) \o <<"-">> \o Pad(tm.D, 2) \o <<" ">>
    \o Pad(tm.h, 2) \o <<":">> \o Pad(tm.m, 2) \o <<":">> \o Pad(tm.s, 2)
    \o <<".">> \o Pad(tm.us, 6)

NoTime == [ok |-> FALSE, Y |-> 0, M |-> 0, D |-> 0, h |-> 0, m |-> 0, s |-> 0, us |-> 0]

IsDateShape(s) ==
    /\ Len(s) >= 10
    /\ AllDigits(s, 1, 4) /\ s[5] = "-" /\ AllDigits(s, 6, 7) /\ s[8] = "-"
    /\ AllDigits(s, 9, 10)

IsHourMinuteShape(s) ==
    /\ Len(s) >= 16
    /\ s[11] \in {" ", "T"}
    /\ AllDigits(s, 12, 13) /\ s[14] = ":" /\ AllDigits(s, 15, 16)

IsSecondShape(s) == Len(s) >= 19 /\ s[17] = ":" /\ AllDigits(s, 18, 19)

IsFractionShape(s) == Len(s) >= 21 /\ s[20] = "." /\ AllDigits(s, 21, Len(s))

\* The fraction digits s[21..], as microseconds.
FractionMicros(s) ==
    LET n == Min(Len(s) - 20, 6)
    IN Num(s, 21, 20 + n) * Pow10(6 - n)

\* A time string SQLite accepts: YYYY-MM-DD, optionally followed by HH:MM,
\* HH:MM:SS or HH:MM:SS.fff...; anything else is no time.
ParseTime(s) ==
    IF ~IsDateShape(s) THEN NoTime
    ELSE LET date == [ok |-> TRUE, Y |-> Num(s, 1, 4), M |-> Num(s, 6, 7),
                      D |-> Num(s, 9, 10), h |-> 0, m |-> 0, s |-> 0, us |-> 0]
         IN IF date.M \notin 1..12 \/ date.D \notin 1..31 THEN NoTime
            ELSE IF Len(s) = 10 THEN date
            ELSE IF ~IsHourMinuteShape(s) THEN NoTime
            ELSE LET hm == [date EXCEPT !.h = Num(s, 12, 13), !.m = Num(s, 15, 16)]
                 IN IF hm.h > 23 \/ hm.m > 59 THEN NoTime
                    ELSE IF Len(s) = 16 THEN hm
                    ELSE IF ~IsSecondShape(s) \/ Num(s, 18, 19) > 59 THEN NoTime
                    ELSE IF Len(s) = 19 THEN [hm EXCEPT !.s = Num(s, 18, 19)]
                    ELSE IF ~IsFractionShape(s) THEN NoTime
                    ELSE [hm EXCEPT !.s = Num(s, 18, 19), !.us = FractionMicros(s)]

Directives == {"Y", "m", "d", "H", "M", "S", "f", "%"}

RECURSIVE FormatValid(_, _)
FormatValid(fmt, i) ==
    IF i > Len(fmt) THEN TRUE
    ELSE IF fmt[i] = "%"
         THEN i < Len(fmt) /\ fmt[i + 1] \in Directives /\ FormatValid(fmt, i + 2)
         ELSE FormatValid(fmt, i + 1)

\* %f: SS.SSS, the seconds rounded to milliseconds and never above 59.999.
FractionalSeconds(tm) ==
    LET ms == Min(tm.s * 1000 + (tm.us + 500) \div 1000, 59999)
    IN Pad(ms \div 1000, 2) \o <<".">> \o Pad(ms % 1000, 3)

Substitute(d, tm) ==
    CASE d = "Y" -> Pad(tm.Y, 4)
      [] d = "m" -> Pad(tm.M, 2)
      [] d = "d" -> Pad(tm.D, 2)
      [] d = "H" -> Pad(tm.h, 2)
      [] d = "M" -> Pad(tm.m, 2)
      [] d = "S" -> Pad(tm.s, 2)
      [] d = "f" -> FractionalSeconds(tm)
      [] OTHER -> <<"%">>

RECURSIVE Render(_, _, _)
Render(fmt, i, tm) ==
    IF i > Len(fmt) THEN <<>>
    ELSE IF fmt[i] = "%" THEN Substitute(fmt[i + 1], tm) \o Render(fmt, i + 2, tm)
    ELSE <<fmt[i]>> \o Render(fmt, i + 1, tm)

\* strftime(format, timestring): NULL unless timestring is a time and format is valid.
SqliteStrftime(format, timestring) ==
    IF ~IsText(format) \/ ~IsText(timestring) THEN SqlNull
    ELSE LET tm == ParseTime(timestring.v)
         IN IF ~tm.ok \/ ~FormatValid(format.v, 1) THEN SqlNull
            ELSE SqlText(Render(format.v, 1, tm))

(***************************************************************************)
(* Dialect.normalize_timestamp                                             *)
(***************************************************************************)
\* len("2022-06-03 12:24:35.")
TIMESTAMP_PRECISION_POS == 20

\* YYYY-MM-DD HH:mm:SS.FFFFFF: a timestamp has at most six fractional digits.
MicrosecondDigits == 6

\* '%Y-%m-%d %H:%M:%f'
TimestampFormat ==
    SqlText(<<"%", "Y", "-", "%", "m", "-", "%", "d", " ", "%", "H", ":", "%", "M", ":", "%", "f">>)

\* The code passes the column as strftime's first argument and the format as its second.
normalize_timestamp(value, coltype) ==
    IF coltype.rounds
    THEN SqliteSubstr(SqliteStrftime(value, TimestampFormat),
                      TIMESTAMP_PRECISION_POS + coltype.precision)
    ELSE SqliteStrftime(value, TimestampFormat)

Times ==
    [Y : {2022}, M : {6}, D : {3}, h : {12}, m : {0, 59}, s : {0, 35, 59},
     us : {0, 123456, 499500, 500000, 999600}]

TimestampCalls ==
    [op : {"normalize_timestamp"},
     value : {SqlNull} \cup {SqlText(TimeText(tm)) : tm \in Times},
     coltype : [precision : 0..MicrosecondDigits, rounds : BOOLEAN]]

Call_normalize_timestamp ==
    /\ call.op = "normalize_timestamp"
    /\ ret = <<>>
    /\ ret' = <<normalize_timestamp(call.value, call.coltype)>>
    /\ UNCHANGED call
    /\ UNCHANGED cvars

(***************************************************************************)
(* SQLite's format('%.<p>f', x) on a decimal value.                        *)
(* A value is sign, mantissa digits and scale: -+ digits * 10^-scale.      *)
(* Values are exact decimals: the error of a REAL's binary representation  *)
(* is left out, so the rendering here is at least as exact as SQLite's.    *)
(***************************************************************************)
Zeros(n) == [i \in 1..n |-> 0]

\* The digits before the decimal point (at least one) and the scale digits after it.
IntegerDigits(x) ==
    IF Len(x.digits) > x.scale THEN SubSeq(x.digits, 1, Len(x.digits) - x.scale) ELSE <<0>>

FractionDigits(x) ==
    IF Len(x.digits) >= x.scale
    THEN SubSeq(x.digits, Len(x.digits) - x.scale + 1, Len(x.digits))
    ELSE Zeros(x.scale - Len(x.digits)) \o x.digits

\* ds + 1 in the last place, one digit longer when the carry leaves the first place.
RECURSIVE Increment(_)
Increment(ds) ==
    IF ds = <<>> THEN <<1>>
    ELSE IF ds[Len(ds)] < 9 THEN [ds EXCEPT ![Len(ds)] = @ + 1]
    ELSE Append(Increment(SubSeq(ds, 1, Len(ds) - 1)), 0)

\* The value's digits with exactly p of them after the point, rounded half away
\* from zero when the value has more: the integer digits followed by p digits.
RoundedDigits(x, p) ==
    LET all == IntegerDigits(x) \o FractionDigits(x)
        ni == Len(IntegerDigits(x))
    IN IF x.scale <= p THEN all \o Zeros(p - x.scale)
       ELSE LET kept == SubSeq(all, 1, ni + p)
            IN IF all[ni + p + 1] >= 5 THEN Increment(kept) ELSE kept

\* %f renders 16 significant digits; the places after them are '0'.
SIGNIFICANT_DIGITS == 16

FirstSignificant(ds) ==
    IF \E i \in 1..Len(ds) : ds[i] # 0
    THEN CHOOSE i \in 1..Len(ds) : ds[i] # 0 /\ \A j \in 1..(i - 1) : ds[j] = 0
    ELSE 1

SignificantOnly(ds) ==
    [i \in 1..Len(ds) |-> IF i - FirstSignificant(ds) >= SIGNIFICANT_DIGITS THEN 0 ELSE ds[i]]

DigitText(ds) == [i \in 1..Len(ds) |-> Digit(ds[i])]

SqliteFormatFixed(p, x) ==
    LET ds == SignificantOnly(RoundedDigits(x, p))
        ni == Len(ds) - p
    IN SqlText((IF x.neg THEN <<"-">> ELSE <<>>)
               \o DigitText(SubSeq(ds, 1, ni))
               \o (IF p > 0 THEN <<".">> \o DigitText(SubSeq(ds, ni + 1, Len(ds))) ELSE <<>>))

(***************************************************************************)
(* Dialect.normalize_number                                                *)
(***************************************************************************)
\* f"format('%.{coltype.precision}f', {value})"
normalize_number(value, coltype) == SqliteFormatFixed(coltype.precision, value)

MaxDigits == 18          \* mantissa digits of a value
MaxScale == 3            \* fractional digits of a value
MaxNumPrecision == 3     \* coltype.precision of a fractional column

Mantissa(lead, rest, n) == [i \in 1..n |-> IF i = 1 THEN lead ELSE rest]

Decimals ==
    {[neg |-> FALSE, digits |-> <<0>>, scale |-> 0]}
    \cup [neg : BOOLEAN,
          digits : {Mantissa(lead, rest, n) : lead \in {1, 3, 5, 9}, rest \in {0, 5, 7},
                                              n \in 1..MaxDigits},
          scale : 0..MaxScale]

NumberCalls ==
    [op : {"normalize_number"}, value : Decimals, coltype : [precision : 0..MaxNumPrecision]]

Call_normalize_number ==
    /\ call.op = "normalize_number"
    /\ ret = <<>>
    /\ ret' = <<normalize_number(call.value, call.coltype)>>
    /\ UNCHANGED call
    /\ UNCHANGED cvars

(***************************************************************************)
(* Reading a rendered number back.                                         *)
(***************************************************************************)
RECURSIVE StripLeadingZeros(_)
StripLeadingZeros(ds) ==
    IF ds # <<>> /\ ds[1] = 0 THEN StripLeadingZeros(Tail(ds)) ELSE ds

RECURSIVE StripTrailingZeros(_)
StripTrailingZeros(ds) ==
    IF ds # <<>> /\ ds[Len(ds)] = 0 THEN StripTrailingZeros(SubSeq(ds, 1, Len(ds) - 1)) ELSE ds

\* A decimal's canonical form: no leading zero, no trailing fractional zero, no -0.
Canonical(neg, int, frac) ==
    LET i == StripLeadingZeros(int)
        f == StripTrailingZeros(frac)
    IN [neg |-> neg /\ (i # <<>> \/ f # <<>>), int |-> i, frac |-> f]

CanonicalValue(x) == Canonical(x.neg, IntegerDigits(x), FractionDigits(x))

PointAt(s) == IF \E i \in 1..Len(s) : s[i] = "." THEN CHOOSE i \in 1..Len(s) : s[i] = "." ELSE 0

\* [-]I or [-]I.P with I at least one digit and P exactly p digits.
IsNumberText(s, p) ==
    LET body == IF s # <<>> /\ s[1] = "-" THEN Tail(s) ELSE s
        dot == PointAt(body)
    IN IF p = 0
       THEN Len(body) >= 1 /\ AllDigits(body, 1, Len(body))
       ELSE /\ dot >= 2
            /\ AllDigits(body, 1, dot - 1)
            /\ Len(body) = dot + p
            /\ AllDigits(body, dot + 1, Len(body))

DigitVals(s, i, j) == [k \in 1..(j - i + 1) |-> DigitVal(s[i + k - 1])]

ParseNumberText(s) ==
    LET neg == s # <<>> /\ s[1] = "-"
        body == IF neg THEN Tail(s) ELSE s
        dot == PointAt(body)
    IN IF dot = 0 THEN Canonical(neg, DigitVals(body, 1, Len(body)), <<>>)
       ELSE Canonical(neg, DigitVals(body, 1, dot - 1), DigitVals(body, dot + 1, Len(body)))

(***************************************************************************)
(* Dialect.md5_as_int, Dialect.md5_as_hex: a call of a function by name.   *)
(***************************************************************************)
md5_as_int_misnamed(s) == [fn |-> "data_diff__md5int", arg |-> s]

\* f"data_diff__md5_int({s})"
md5_as_int(s) == [fn |-> "data_diff__md5_int", arg |-> s]

\* f"data_diff__md5_hex({s})"
md5_as_hex(s) == [fn |-> "data_diff__md5_hex", arg |-> s]

Md5Fragments == {md5_as_int("c"), md5_as_hex("c")}

(***************************************************************************)
(* The SQLite connection manager.                                          *)
(***************************************************************************)
NumWorkers == 2          \* thread_count
MaxCloses == 2           \* close() calls in one run

\* Each worker and each close() call opens at most one connection.
MaxConns == NumWorkers + MaxCloses

Workers == 1..NumWorkers
ConnIds == 1..MaxConns
MainThread == 0

Unopened == [state |-> "Unopened", udfs |-> {}, by |-> MainThread]

\* con.create_function(name, 1, fn) and con.create_function(name, 1, None)
create_function(c, name) == [c EXCEPT !.udfs = @ \cup {name}]
delete_function(c, name) == [c EXCEPT !.udfs = @ \ {name}]

\* sqlite3 closing a connection: its functions go with it.
Closed(c) == [c EXCEPT !.state = "Closed", !.udfs = {}]

\* A connection object no variable refers to any more: the interpreter may
\* finalize (close) it at once, later, or never.
Dropped(c) == {c, Closed(c)}

CachedConnection == IF nextId > 1 THEN 1 ELSE nextId

\* sqlite3.connect(**self._args) returns a connection object of its own.
FreshConnection == nextId

\* How an operation ended, and whether a close() had returned before it.
NoOp == [op |-> "none", result |-> "ok", afterClose |-> FALSE]
Ended(op, result) == [op |-> op, result |-> result, afterClose |-> closes > 0]

ConnInit ==
    /\ failed = [w \in Workers |-> FALSE]
    /\ conns = [c \in ConnIds |-> Unopened]
    /\ nextId = 1
    /\ held = [w \in Workers |-> 0]
    /\ pc = [w \in Workers |-> "idle"]
    /\ con = [w \in Workers |-> 0]
    /\ cursor = [c \in ConnIds |-> {}]
    /\ rows = [w \in Workers |-> {}]
    /\ pool = "running"
    /\ mpc = "idle"
    /\ mcon = 0
    /\ closes = 0
    /\ raised = 0
    /\ lastOp = NoOp

(***************************************************************************)
(* SQLite.create_connection, run once by worker w, before its first query. *)
(***************************************************************************)
\* con = sqlite3.connect(**self._args)
CC_Connect(w) ==
    /\ pool = "running" /\ pc[w] = "idle" /\ held[w] = 0 /\ ~failed[w]
    /\ \/ /\ args.openable
          /\ conns' = [conns EXCEPT ![FreshConnection] =
                          [state |-> "Open", udfs |-> {}, by |-> w]]
          /\ con' = [con EXCEPT ![w] = FreshConnection]
          /\ nextId' = nextId + 1
          /\ pc' = [pc EXCEPT ![w] = "register_int"]
          /\ UNCHANGED <<failed, lastOp>>
       \/ /\ ~args.openable
          /\ failed' = [failed EXCEPT ![w] = TRUE]
          /\ lastOp' = Ended("create_connection", "error")
          /\ UNCHANGED <<conns, con, nextId, pc>>
    /\ UNCHANGED <<call, ret, args, held, cursor, rows, pool, mpc, mcon, closes, raised>>

\* A registration raises: create_connection ends, its con is dropped unclosed.
CC_Raise(w) ==
    /\ \E c \in Dropped(conns[con[w]]) : conns' = [conns EXCEPT ![con[w]] = c]
    /\ con' = [con EXCEPT ![w] = 0]
    /\ pc' = [pc EXCEPT ![w] = "idle"]
    /\ lastOp' = Ended("create_connection", "error")
    /\ failed' = [failed EXCEPT ![w] = TRUE]

\* con.create_function("data_diff__md5_int", 1, data_diff__md5_int)
CC_RegisterInt(w) ==
    /\ pc[w] = "register_int"
    /\ \/ /\ conns' = [conns EXCEPT ![con[w]] = create_function(@, "data_diff__md5_int")]
          /\ pc' = [pc EXCEPT ![w] = "register_hex"]
          /\ UNCHANGED <<con, failed, lastOp>>
       \/ CC_Raise(w)
    /\ UNCHANGED <<call, ret, args, nextId, held, cursor, rows, pool, mpc, mcon, closes, raised>>

\* con.create_function("data_diff__md5_hex", 1, data_diff__md5_hex)
CC_RegisterHex(w) ==
    /\ pc[w] = "register_hex"
    /\ \/ /\ conns' = [conns EXCEPT ![con[w]] = create_function(@, "data_diff__md5_hex")]
          /\ pc' = [pc EXCEPT ![w] = "return"]
          /\ UNCHANGED <<con, failed, lastOp>>
       \/ CC_Raise(w)
    /\ UNCHANGED <<call, ret, args, nextId, held, cursor, rows, pool, mpc, mcon, closes, raised>>

\* return con; the worker keeps it as its connection.
CC_Return(w) ==
    /\ pc[w] = "return"
    /\ held' = [held EXCEPT ![w] = con[w]]
    /\ con' = [con EXCEPT ![w] = 0]
    /\ pc' = [pc EXCEPT ![w] = "idle"]
    /\ lastOp' = Ended("create_connection", "ok")
    /\ UNCHANGED <<call, ret, args, failed, conns, nextId, cursor, rows, pool, mpc, mcon, closes, raised>>

(***************************************************************************)
(* A worker's query on the connection it holds: execute, then fetch.       *)
(***************************************************************************)
Resolves(frag, c) == frag.fn \in conns[c].udfs

Q_Execute(w) ==
    /\ pool = "running" /\ pc[w] = "idle" /\ (held[w] # 0 \/ failed[w])
    /\ \E frag \in Md5Fragments :
          IF held[w] # 0 /\ conns[held[w]].state = "Open" /\ Resolves(frag, held[w])
          THEN /\ cursor' = [cursor EXCEPT ![held[w]] = {w}]
               /\ pc' = [pc EXCEPT ![w] = "fetch"]
               /\ UNCHANGED lastOp
          ELSE /\ lastOp' = Ended("query", "error")
               /\ UNCHANGED <<cursor, pc>>
    /\ UNCHANGED <<call, ret, args, failed, conns, nextId, held, con, rows, pool, mpc, mcon, closes, raised>>

Q_Fetch(w) ==
    /\ pc[w] = "fetch"
    /\ rows' = [rows EXCEPT ![w] = @ \cup cursor[held[w]]]
    /\ cursor' = [cursor EXCEPT ![held[w]] = {}]
    /\ pc' = [pc EXCEPT ![w] = "idle"]
    /\ lastOp' = Ended("query", "ok")
    /\ UNCHANGED <<call, ret, args, failed, conns, nextId, held, con, pool, mpc, mcon, closes, raised>>

\* A query handed to a pool that was shut down is refused.
Q_Rejected(w) ==
    /\ pool = "shutdown" /\ pc[w] = "idle"
    /\ lastOp' = Ended("query", "error")
    /\ UNCHANGED <<call, ret, args, failed, conns, nextId, held, pc, con, cursor, rows, pool, mpc, mcon, closes, raised>>

(***************************************************************************)
(* SQLite.close, run by the main thread.                                   *)
(***************************************************************************)
\* con = sqlite3.connect(**self._args)
Close_Connect ==
    /\ mpc = "idle" /\ closes + raised < MaxCloses
    /\ \/ /\ args.openable
          /\ conns' = [conns EXCEPT ![FreshConnection] =
                          [state |-> "Open", udfs |-> {}, by |-> MainThread]]
          /\ mcon' = FreshConnection
          /\ nextId' = nextId + 1
          /\ mpc' = "unregister_int"
          /\ UNCHANGED <<raised, lastOp>>
       \/ /\ ~args.openable
          /\ raised' = raised + 1
          /\ lastOp' = Ended("close", "error")
          /\ UNCHANGED <<conns, mcon, nextId, mpc>>
    /\ UNCHANGED <<call, ret, args, failed, held, pc, con, cursor, rows, pool, closes>>

\* con.create_function("data_diff__md5_int", 1, None)
Close_UnregisterInt ==
    /\ mpc = "unregister_int"
    /\ conns' = [conns EXCEPT ![mcon] = delete_function(@, "data_diff__md5_int")]
    /\ mpc' = "unregister_hex"
    /\ UNCHANGED <<call, ret, args, failed, nextId, held, pc, con, cursor, rows, pool, mcon, closes, raised, lastOp>>

\* con.create_function("data_diff__md5_hex", 1, None)
Close_UnregisterHex ==
    /\ mpc = "unregister_hex"
    /\ conns' = [conns EXCEPT ![mcon] = delete_function(@, "data_diff__md5_hex")]
    /\ mpc' = "super"
    /\ UNCHANGED <<call, ret, args, failed, nextId, held, pc, con, cursor, rows, pool, mcon, closes, raised, lastOp>>

\* super().close(): the pool drains, is shut down, and the connections the
\* workers hold are released.  Safe to repeat.
Close_Super ==
    /\ mpc = "super"
    /\ \A w \in Workers : pc[w] = "idle"
    /\ pool' = "shutdown"
    /\ conns' = [c \in ConnIds |->
                    IF \E w \in Workers : held[w] = c THEN Closed(conns[c]) ELSE conns[c]]
    /\ held' = [w \in Workers |-> 0]
    /\ mpc' = "return"
    /\ UNCHANGED <<call, ret, args, failed, nextId, pc, con, cursor, rows, mcon, closes, raised, lastOp>>

\* close() returns; its con was never closed and is dropped.
Close_Return ==
    /\ mpc = "return"
    /\ \E c \in Dropped(conns[mcon]) : conns' = [conns EXCEPT ![mcon] = c]
    /\ mcon' = 0
    /\ mpc' = "idle"
    /\ closes' = closes + 1
    /\ lastOp' = Ended("close", "ok")
    /\ UNCHANGED <<call, ret, args, failed, nextId, held, pc, con, cursor, rows, pool, raised>>

(***************************************************************************)
(* Specifications.  Each Dialect method is checked on every input of its   *)
(* input set; the connection manager runs its workers and close() in any   *)
(* interleaving.                                                           *)
(***************************************************************************)
NoCall == [op |-> "none"]
Openable == [openable |-> TRUE]

InitDistinct == call \in DistinctCalls /\ ret = <<>> /\ args = Openable /\ ConnInit
SpecDistinct == InitDistinct /\ [][Call_is_distinct_from]_vars

InitClassify == call \in ClassifyCalls /\ ret = <<>> /\ args = Openable /\ ConnInit
SpecClassify == InitClassify /\ [][Call_classify]_vars

InitTimestamp == call \in TimestampCalls /\ ret = <<>> /\ args = Openable /\ ConnInit
SpecTimestamp == InitTimestamp /\ [][Call_normalize_timestamp]_vars

InitNumber == call \in NumberCalls /\ ret = <<>> /\ args = Openable /\ ConnInit
SpecNumber == InitNumber /\ [][Call_normalize_number]_vars

InitConn == call = NoCall /\ ret = <<>> /\ args \in [openable : BOOLEAN] /\ ConnInit

NextConn ==
    \/ \E w \in Workers : CC_Connect(w)
    \/ \E w \in Workers : CC_RegisterInt(w)
    \/ \E w \in Workers : CC_RegisterHex(w)
    \/ \E w \in Workers : CC_Return(w)
    \/ \E w \in Workers : Q_Execute(w)
    \/ \E w \in Workers : Q_Fetch(w)
    \/ \E w \in Workers : Q_Rejected(w)
    \/ Close_Connect
    \/ Close_UnregisterInt
    \/ Close_UnregisterHex
    \/ Close_Super
    \/ Close_Return

SpecConn == InitConn /\ [][NextConn]_vars

Init == InitDistinct \/ InitClassify \/ InitTimestamp \/ InitNumber \/ InitConn

Next ==
    \/ Call_is_distinct_from
    \/ Call_classify
    \/ Call_normalize_timestamp
    \/ Call_normalize_number
    \/ NextConn

Spec == Init /\ [][Next]_vars

(***************************************************************************)
(* Properties.                                                             *)
(***************************************************************************)
Evaluated(op) == call.op = op /\ ret # <<>>

\* C1: the fragment of is_distinct_from(a, b) evaluates to a definite boolean,
\* never NULL, and is false exactly when both operands are NULL or both are
\* the same non-NULL value.
C1_DistinctIsDefinite ==
    Evaluated("is_distinct_from") =>
        LET bothNull == call.a.t = "null" /\ call.b.t = "null"
            bothSame == call.a.t = "int" /\ call.b.t = "int" /\ call.a.v[1] = call.b.v[1]
        IN /\ ret[1].t = "int"
           /\ ret[1].v[1] \in {0, 1}
           /\ ret[1].v[1] = 0 <=> (bothNull \/ bothSame)

\* is_distinct_from(NULL, NULL) has been evaluated, to false.
C1_Witness ==
    /\ Evaluated("is_distinct_from")
    /\ call.a = SqlNull /\ call.b = SqlNull
    /\ ret[1] = SqlInt(0)

\* 'YYYY-MM-DD HH:MM:SS' followed by '.' and exactly p digits, or by nothing when p = 0.
IsTimestampText(s, p) ==
    /\ Len(s) = 19 + (IF p = 0 THEN 0 ELSE p + 1)
    /\ IsDateShape(s) /\ IsHourMinuteShape(s) /\ s[11] = " " /\ IsSecondShape(s)
    /\ p > 0 => IsFractionShape(s)

\* tm to the second, followed by its first p fractional digits.
PrecisionText(tm, p) ==
    SubSeq(TimeText(tm), 1, 19)
    \o (IF p = 0 THEN <<>> ELSE <<".">> \o Pad(tm.us \div Pow10(MicrosecondDigits - p), p))

\* tm rounded half up to p fractional digits, the carry taken into the seconds,
\* minutes and hours.
RoundedTime(tm, p) ==
    LET q == Pow10(MicrosecondDigits - p)
        r == ((tm.us + q \div 2) \div q) * q
        sod == tm.h * 3600 + tm.m * 60 + tm.s + r \div Pow10(MicrosecondDigits)
    IN [tm EXCEPT !.h = sod \div 3600, !.m = (sod % 3600) \div 60, !.s = sod % 60,
                  !.us = r % Pow10(MicrosecondDigits)]

\* C2: normalize_timestamp renders a timestamp as YYYY-MM-DD HH:MM:SS followed by
\* exactly precision fractional digits, with no separator when precision is 0;
\* without rounds the fraction is the value's, truncated (12:00:00.123456 at
\* precision 3 gives fraction 123).
C2_TimestampForm ==
    (Evaluated("normalize_timestamp") /\ IsText(call.value)) =>
        /\ IsText(ret[1])
        /\ IsTimestampText(ret[1].v, call.coltype.precision)
        /\ ~call.coltype.rounds =>
               ret[1].v = PrecisionText(ParseTime(call.value.v), call.coltype.precision)

\* C3: with rounds, normalize_timestamp rounds the fraction to precision digits:
\* when the digits beyond the precision-th are half or more, the precision-th
\* digit is incremented and the carry goes into the seconds.
C3_TimestampRounds ==
    (Evaluated("normalize_timestamp") /\ IsText(call.value) /\ call.coltype.rounds) =>
        LET tm == ParseTime(call.value.v)
            p == call.coltype.precision
            q == Pow10(MicrosecondDigits - p)
        IN (tm.us % q) * 2 >= q =>
               /\ IsText(ret[1])
               /\ ret[1].v = PrecisionText(RoundedTime(tm, p), p)

\* C4: for a value whose scale is at most precision, normalize_number renders at
\* least one integer digit, exactly precision fractional digits, no decimal point
\* when precision is 0, and the text reads back as the value.
C4_NumberRoundTrip ==
    (Evaluated("normalize_number") /\ call.value.scale <= call.coltype.precision) =>
        /\ IsText(ret[1])
        /\ IsNumberText(ret[1].v, call.coltype.precision)
        /\ ParseNumberText(ret[1].v) = CanonicalValue(call.value)

CloseReturned == lastOp.op = "close" /\ lastOp.result = "ok" /\ mpc = "idle"

\* C5: after close() returns, every connection the manager opened is closed, the
\* one close() opened itself included, and none has an MD5 function registered.
C5_CloseReleasesAll ==
    CloseReturned =>
        \A c \in ConnIds : conns[c].state # "Open" /\ conns[c].udfs = {}

\* C6: after a create_connection call has failed, close() still completes and
\* shuts the pool down; it does not raise before the pool is released.
C6_CloseAfterFailedConnect ==
    ((\E w \in Workers : failed[w]) /\ lastOp.op = "close") => (lastOp.result = "ok" /\ pool = "shutdown")

\* C7: a connection moves only Unopened -> Open -> Closed, and once close() has
\* been performed every later operation (a query, a second close) is reported
\* as an error.
C7_ClosedIsFinal ==
    [][/\ \A c \in ConnIds :
            /\ conns[c].state = "Closed" => conns'[c].state = "Closed"
            /\ conns[c].state = "Open" => conns'[c].state \in {"Open", "Closed"}
       /\ lastOp'.afterClose => lastOp'.result = "error"]_vars

InUse(w) == {held[w], con[w]} \ {0}

\* C8: each worker holds at most one connection, no connection is in the hands of
\* two workers (or of a worker and close()), and a worker fetches only rows of
\* its own queries.
C8_NoSharing ==
    \A w \in Workers :
        /\ Cardinality(InUse(w)) <= 1
        /\ mcon \notin InUse(w)
        /\ \A v \in Workers \ {w} : InUse(w) \cap InUse(v) = {}
        /\ rows[w] \subseteq {w}

\* Both workers hold a connection and have fetched the rows of a query.
C8_Witness ==
    /\ \A w \in Workers : held[w] # 0 /\ rows[w] = {w}
    /\ \A w \in Workers : \A v \in Workers \ {w} : held[w] # held[v]

\* C9: on every connection create_connection has returned, the fragments of
\* md5_as_int and md5_as_hex resolve; a create_connection call in which a
\* registration (or the opening) failed returns no connection.
C9_ReturnedResolvesMd5 ==
    /\ \A w \in Workers : held[w] # 0 => \A frag \in Md5Fragments : Resolves(frag, held[w])
    /\ \A w \in Workers : failed[w] => held[w] = 0

\* One worker holds a connection on which both fragments resolve while another
\* worker's create_connection has just failed at a registration.
C9_Witness ==
    /\ \E w \in Workers : held[w] # 0 /\ \A frag \in Md5Fragments : Resolves(frag, held[w])
    /\ lastOp.op = "create_connection" /\ lastOp.result = "error"
    /\ \E c \in ConnIds : conns[c].by # MainThread /\ conns[c].state # "Unopened"
                          /\ \A w \in Workers : held[w] # c /\ con[w] # c

====
